---------------------------- MODULE Spec2Model ----------------------------
(***************************************************************************)
(* A model of zmq::udp_engine_t (src/src/udp_engine.cpp), POSIX build: the *)
(* engine's fields, the reactor and the session it talks to, the sockets   *)
(* it opens, and one action per method.                                    *)
(*                                                                         *)
(* Bytes and characters are naturals (characters by their ASCII code).     *)
(* A message is its data, a sequence of bytes; msg_t::more is kept where   *)
(* the engine sets it.                                                     *)
(***************************************************************************)
EXTENDS Integers, Sequences, FiniteSets, TLC

(***************************************************************************)
(* Bounds.  The code's unsigned char holds 0..255 and its buffers hold     *)
(* MAX_UDP_MSG bytes; the model keeps both, scaled down, with              *)
(* ByteRange <= MAX_UDP_MSG as in the code (256 <= 8192).                  *)
(***************************************************************************)
ByteRange == 3
MAX_UDP_MSG == 4
MaxQueue == 2
MaxInit == 2

Byte == 0 .. (ByteRange - 1)

\* All sequences over S of length 0..n.
SeqUpTo(S, n) == UNION {[1 .. k -> S] : k \in 0 .. n}

Min(a, b) == IF a < b THEN a ELSE b

(***************************************************************************)
(* Raw endpoint codec: sockaddr_to_msg and resolve_raw_address, with the   *)
(* C library calls they make (inet_ntoa, sprintf %d, atoi, inet_addr)      *)
(* modelled by what they do on character strings.                          *)
(***************************************************************************)
Colon == 58
Dot == 46
NUL == 0
AF_INET == 2
\* in_addr_t as its four octets in network order; INADDR_NONE is all ones.
INADDR_NONE == <<255, 255, 255, 255>>
ZeroSockaddr == [sin_family |-> 0, sin_port |-> 0, s_addr |-> <<0, 0, 0, 0>>]

IsDigit(c) == c \in 48 .. 57
IsSpace(c) == c \in {32, 9, 10, 11, 12, 13}

\* sprintf ("%d", n) for n >= 0.
RECURSIVE Decimal(_)
Decimal(n) == IF n < 10 THEN <<48 + n>>
              ELSE Decimal(n \div 10) \o <<48 + (n % 10)>>

\* inet_ntoa: dotted-quad decimal.
inet_ntoa(a) ==
    Decimal(a[1]) \o <<Dot>> \o Decimal(a[2]) \o <<Dot>> \o
    Decimal(a[3]) \o <<Dot>> \o Decimal(a[4])

\* std::string::c_str () as C functions read it: up to the first NUL.
RECURSIVE c_str(_)
c_str(s) == IF s = <<>> \/ Head(s) = NUL THEN <<>>
            ELSE <<Head(s)>> \o c_str(Tail(s))

RECURSIVE LeadingDigits(_, _)
LeadingDigits(s, acc) ==
    IF s = <<>> \/ ~IsDigit(Head(s)) THEN acc
    ELSE LeadingDigits(Tail(s), acc * 10 + (Head(s) - 48))

RECURSIVE SkipSpace(_)
SkipSpace(s) == IF s # <<>> /\ IsSpace(Head(s)) THEN SkipSpace(Tail(s)) ELSE s

\* atoi past the white space: an optional sign, then the leading digits.
SignedDigits(t) ==
    IF t = <<>> THEN 0
    ELSE IF Head(t) = 45 THEN 0 - LeadingDigits(Tail(t), 0)
    ELSE LeadingDigits(IF Head(t) = 43 THEN Tail(t) ELSE t, 0)

atoi(s) == SignedDigits(SkipSpace(c_str(s)))

uint16(n) == n % 65536

\* htons and ntohs on a little-endian host: the two bytes change places.
htons(n) == (n % 256) * 256 + (n \div 256)
ntohs(n) == (n % 256) * 256 + (n \div 256)

\* The parts of s between the separators sep.
RECURSIVE SplitAcc(_, _, _)
SplitAcc(s, sep, cur) ==
    IF s = <<>> THEN <<cur>>
    ELSE IF Head(s) = sep THEN <<cur>> \o SplitAcc(Tail(s), sep, <<>>)
    ELSE SplitAcc(Tail(s), sep, Append(cur, Head(s)))
Split(s, sep) == SplitAcc(s, sep, <<>>)

\* The value of the digit c, or 16 when it is no digit.
DigitValue(c) ==
    IF IsDigit(c) THEN c - 48
    ELSE IF c \in 97 .. 102 THEN c - 87
    ELSE IF c \in 65 .. 70 THEN c - 55
    ELSE 16

\* Numbers are followed up to NumCap, above every value a part of three or
\* fewer octets may take (the model checker's integers end at 2^31 - 1, so a
\* one-part address is followed below NumCap only).
NumCap == 16777216

\* The number the digits s write in a base, or -1 when one is no digit of it.
RECURSIVE NumIn(_, _, _)
NumIn(s, base, acc) ==
    IF s = <<>> THEN acc
    ELSE IF DigitValue(Head(s)) >= base THEN 0 - 1
    ELSE NumIn(Tail(s), base, Min(acc * base + DigitValue(Head(s)), NumCap))

IsHex(s) == Len(s) >= 2 /\ s[1] = 48 /\ s[2] \in {120, 88}

\* One part of an inet_addr string: decimal, 0 octal or 0x hexadecimal; -1
\* when it is no number.
CNumber(s) ==
    IF s = <<>> \/ (IsHex(s) /\ Len(s) = 2) THEN 0 - 1
    ELSE NumIn(IF IsHex(s) THEN SubSeq(s, 3, Len(s)) ELSE s,
               IF IsHex(s) THEN 16 ELSE IF s[1] = 48 THEN 8 ELSE 10, 0)

\* The octets of v, an n-byte big-endian number.
RECURSIVE Octets(_, _)
Octets(v, n) == IF n = 0 THEN <<>> ELSE Octets(v \div 256, n - 1) \o <<v % 256>>

\* The largest value the last of n parts may take, plus one.
PartLimit(n) == CASE n = 4 -> 256 [] n = 3 -> 65536 [] n = 2 -> 16777216
                  [] OTHER -> NumCap

\* The address the parts' values make, the last part filling the remaining
\* octets, or INADDR_NONE.
FromParts(vals) ==
    IF /\ Len(vals) \in 1 .. 4
       /\ \A i \in 1 .. Len(vals) : vals[i] >= 0
       /\ \A i \in 1 .. (Len(vals) - 1) : vals[i] <= 255
       /\ vals[Len(vals)] < PartLimit(Len(vals))
    THEN SubSeq(vals, 1, Len(vals) - 1) \o Octets(vals[Len(vals)], 5 - Len(vals))
    ELSE INADDR_NONE

Numbers(parts) == [i \in 1 .. Len(parts) |-> CNumber(parts[i])]

\* inet_addr: a.b.c.d, a.b.c, a.b or a, each part a C number;
\* INADDR_NONE when the string is malformed.
inet_addr(s) == FromParts(Numbers(Split(c_str(s), Dot)))

\* sockaddr_to_msg: "name:port" and its terminating NUL, flagged more.
MsgOfText(text, size) == [data |-> SubSeq(text, 1, size), more |-> TRUE]

AddressText(name, port) ==
    MsgOfText(name \o <<Colon>> \o port \o <<NUL>>, Len(name) + Len(port) + 1 + 1)

sockaddr_to_msg(addr) ==
    AddressText(inet_ntoa(addr.s_addr), Decimal(ntohs(addr.sin_port)))

\* The index of the last sep among the first n characters, or 0.
RECURSIVE LastIndexOf(_, _, _)
LastIndexOf(s, sep, n) ==
    IF n = 0 THEN 0
    ELSE IF s[n] = sep THEN n
    ELSE LastIndexOf(s, sep, n - 1)

Sockaddr(port, s_addr) ==
    [sin_family |-> AF_INET, sin_port |-> htons(port), s_addr |-> s_addr]

\* resolve_raw_address from the port on: the return code and the raw_address
\* it leaves.
ResolveParts(port, s_addr) ==
    IF port = 0 THEN [rc |-> 0 - 1, raw_address |-> ZeroSockaddr]
    ELSE IF s_addr = INADDR_NONE
    THEN [rc |-> 0 - 1, raw_address |-> Sockaddr(port, s_addr)]
    ELSE [rc |-> 0, raw_address |-> Sockaddr(port, s_addr)]

ResolveAt(name_, length_, delimiter) ==
    IF delimiter = 0 THEN [rc |-> 0 - 1, raw_address |-> ZeroSockaddr]
    ELSE ResolveParts(uint16(atoi(SubSeq(name_, delimiter + 1, length_))),
                      inet_addr(SubSeq(name_, 1, delimiter - 1)))

resolve_raw_address(name_, length_) ==
    ResolveAt(name_, length_, LastIndexOf(name_, Colon, length_))

(***************************************************************************)
(* The resolved address handed to init (udp_address_t): a bind address, a  *)
(* target address, and the multicast flag.  IP addresses are symbolic.     *)
(***************************************************************************)
MulticastIps == {"239.0.0.1", "ff02::1"}
is_multicast(ip_addr) == ip_addr.ip \in MulticastIps

ResolvedAddr(family, bind_ip, target_ip) ==
    [null |-> FALSE, family |-> family,
     bind_addr |-> [family |-> family, ip |-> bind_ip, port |-> 5555],
     target_addr |-> [family |-> family, ip |-> target_ip, port |-> 5555],
     is_mcast |-> target_ip \in MulticastIps]

NullAddress == [ResolvedAddr("none", "none", "none") EXCEPT !.null = TRUE]

UnicastV4 == ResolvedAddr("AF_INET", "10.0.0.1", "10.0.0.2")
MulticastV4 == ResolvedAddr("AF_INET", "10.0.0.1", "239.0.0.1")
MulticastV6 == ResolvedAddr("AF_INET6", "fe80::1", "ff02::1")

\* ip_addr_t::any (family): the wildcard address of the family, port 0.
ip_addr_any(family) ==
    [family |-> family, ip |-> IF family = "AF_INET6" THEN "::" ELSE "0.0.0.0",
     port |-> 0]

\* Binding the multicast group's own address (to see that the property of
\* the bind target tells the difference).
real_bind_addr_group(addr) == IF addr.is_mcast THEN addr.target_addr ELSE addr.bind_addr

\* The address plug passes to bind.
real_bind_addr(addr) ==
    LET bind_addr == addr.bind_addr
        any == ip_addr_any(bind_addr.family)
    IN IF addr.is_mcast THEN [any EXCEPT !.port = bind_addr.port] ELSE bind_addr

NoBind == [family |-> "none", ip |-> "none", port |-> 0]

(***************************************************************************)
(* What a method did, as the reactor, the session and the socket saw it:   *)
(* the calls it made in order, the messages it pushed (with the session's  *)
(* answer), the messages it pulled, the datagrams it passed to sendto.     *)
(***************************************************************************)
retired_fd == 0 - 1

NoEffect ==
    [calls |-> <<>>, pushed |-> <<>>, pulled |-> <<>>, sent |-> <<>>,
     nbytes |-> 0 - 2, bind |-> NoBind, end |-> "return"]

Count(calls, c) == Cardinality({i \in DOMAIN calls : calls[i] = c})

\* The reactor's interest flags after the calls of a method.
RECURSIVE Replay(_, _)
Replay(r, calls) ==
    IF calls = <<>> THEN r
    ELSE LET c == Head(calls)
             r1 == CASE c = "set_pollin" -> [r EXCEPT !.pollin = TRUE]
                     [] c = "reset_pollin" -> [r EXCEPT !.pollin = FALSE]
                     [] c = "set_pollout" -> [r EXCEPT !.pollout = TRUE]
                     [] c = "reset_pollout" -> [r EXCEPT !.pollout = FALSE]
                     [] OTHER -> r
         IN Replay(r1, Tail(calls))

\* recvfrom's failures the POSIX build asserts against.
FatalRecvErrno == {"EBADF", "EFAULT", "ENOMEM", "ENOTSOCK"}

(***************************************************************************)
(* in_event.  buf is in_buffer on entry; rcv is what recvfrom returns      *)
(* ([n, errno, data, src]: n bytes of data from src, or n = -1 and errno); *)
(* ga and ba are the session's answers to the group and the body push.     *)
(* The result is the effect and the in_buffer the call leaves.             *)
(***************************************************************************)
InCalls(after) == <<"recvfrom", "msg.init">> \o after

\* What the pushes would be with one step of in_event written otherwise
\* (used to see that the properties below tell the difference):
\* a rejected body handled as a rejected group is, without the reset;
in_push_no_reset(buf1, nbytes, group, body, ga, ba) ==
    [in_buffer |-> buf1,
     eff |->
       IF ~ga
       THEN [NoEffect EXCEPT
               !.nbytes = nbytes,
               !.calls = InCalls(<<"push_msg", "msg.close", "reset_pollin">>),
               !.pushed = <<[msg |-> group, rc |-> 0 - 1]>>]
       ELSE IF ~ba
       THEN [NoEffect EXCEPT
               !.nbytes = nbytes,
               !.calls = InCalls(<<"push_msg", "msg.close", "msg.init", "push_msg",
                                   "msg.close", "reset_pollin">>),
               !.pushed = <<[msg |-> group, rc |-> 0], [msg |-> body, rc |-> 0 - 1]>>]
       ELSE [NoEffect EXCEPT
               !.nbytes = nbytes,
               !.calls = InCalls(<<"push_msg", "msg.close", "msg.init", "push_msg",
                                   "msg.close", "flush">>),
               !.pushed = <<[msg |-> group, rc |-> 0], [msg |-> body, rc |-> 0]>>]]

\* a rejected group handled as a rejected body is, with the reset;
in_push_group_reset(buf1, nbytes, group, body, ga, ba) ==
    [in_buffer |-> buf1,
     eff |->
       IF ~ga
       THEN [NoEffect EXCEPT
               !.nbytes = nbytes,
               !.calls = InCalls(<<"push_msg", "msg.close", "reset", "reset_pollin">>),
               !.pushed = <<[msg |-> group, rc |-> 0 - 1]>>]
       ELSE IF ~ba
       THEN [NoEffect EXCEPT
               !.nbytes = nbytes,
               !.calls = InCalls(<<"push_msg", "msg.close", "msg.init", "push_msg",
                                   "msg.close", "reset", "reset_pollin">>),
               !.pushed = <<[msg |-> group, rc |-> 0], [msg |-> body, rc |-> 0 - 1]>>]
       ELSE [NoEffect EXCEPT
               !.nbytes = nbytes,
               !.calls = InCalls(<<"push_msg", "msg.close", "msg.init", "push_msg",
                                   "msg.close", "flush">>),
               !.pushed = <<[msg |-> group, rc |-> 0], [msg |-> body, rc |-> 0]>>]]

\* a flush after the group as well as after the body;
in_push_flush_each(buf1, nbytes, group, body, ga, ba) ==
    [in_buffer |-> buf1,
     eff |->
       IF ~ga
       THEN [NoEffect EXCEPT
               !.nbytes = nbytes,
               !.calls = InCalls(<<"push_msg", "msg.close", "reset_pollin">>),
               !.pushed = <<[msg |-> group, rc |-> 0 - 1]>>]
       ELSE IF ~ba
       THEN [NoEffect EXCEPT
               !.nbytes = nbytes,
               !.calls = InCalls(<<"push_msg", "flush", "msg.close", "msg.init",
                                   "push_msg", "msg.close", "reset", "reset_pollin">>),
               !.pushed = <<[msg |-> group, rc |-> 0], [msg |-> body, rc |-> 0 - 1]>>]
       ELSE [NoEffect EXCEPT
               !.nbytes = nbytes,
               !.calls = InCalls(<<"push_msg", "flush", "msg.close", "msg.init",
                                   "push_msg", "msg.close", "flush">>),
               !.pushed = <<[msg |-> group, rc |-> 0], [msg |-> body, rc |-> 0]>>]]

\* From the group push on.
in_push(buf1, nbytes, group, body, ga, ba) ==
    [in_buffer |-> buf1,
     eff |->
       IF ~ga
       THEN [NoEffect EXCEPT
               !.nbytes = nbytes,
               !.calls = InCalls(<<"push_msg", "msg.close", "reset_pollin">>),
               !.pushed = <<[msg |-> group, rc |-> 0 - 1]>>]
       ELSE IF ~ba
       THEN [NoEffect EXCEPT
               !.nbytes = nbytes,
               !.calls = InCalls(<<"push_msg", "msg.close", "msg.init", "push_msg",
                                   "msg.close", "reset", "reset_pollin">>),
               !.pushed = <<[msg |-> group, rc |-> 0], [msg |-> body, rc |-> 0 - 1]>>]
       ELSE [NoEffect EXCEPT
               !.nbytes = nbytes,
               !.calls = InCalls(<<"push_msg", "msg.close", "msg.init", "push_msg",
                                   "msg.close", "flush">>),
               !.pushed = <<[msg |-> group, rc |-> 0], [msg |-> body, rc |-> 0]>>]]

\* The body is body_size bytes of the buffer from body_offset on.
in_body(buf1, nbytes, group, body_size, body_offset, ga, ba) ==
    in_push(buf1, nbytes, group,
            [data |-> SubSeq(buf1, body_offset + 1, body_offset + body_size),
             more |-> FALSE],
            ga, ba)

\* the framed size check counting the length byte as part of the group.
in_framed_short(buf1, nbytes, group_size, ga, ba) ==
    IF nbytes < group_size
    THEN [in_buffer |-> buf1,
          eff |-> [NoEffect EXCEPT !.nbytes = nbytes, !.calls = InCalls(<<>>)]]
    ELSE in_body(buf1, nbytes,
                 [data |-> SubSeq(buf1, 2, 1 + group_size), more |-> TRUE],
                 nbytes - 1 - group_size, 1 + group_size, ga, ba)

\* Framed mode: the group is copied out of the buffer before its size is
\* checked against the bytes received.
in_framed(buf1, nbytes, group_size, ga, ba) ==
    IF nbytes - 1 < group_size
    THEN [in_buffer |-> buf1,
          eff |-> [NoEffect EXCEPT !.nbytes = nbytes, !.calls = InCalls(<<>>)]]
    ELSE in_body(buf1, nbytes,
                 [data |-> SubSeq(buf1, 2, 1 + group_size), more |-> TRUE],
                 nbytes - 1 - group_size, 1 + group_size, ga, ba)

in_received(buf1, raw_socket, rcv, ga, ba) ==
    IF raw_socket
    THEN in_body(buf1, rcv.n, sockaddr_to_msg(rcv.src), rcv.n, 0, ga, ba)
    ELSE in_framed(buf1, rcv.n, buf1[1], ga, ba)

\* in_event turning the read interest off when recvfrom fails (to see that
\* the property of the swallowed failure tells the difference).
in_event_fail_resets(buf, raw_socket, rcv, ga, ba) ==
    IF rcv.n = 0 - 1
    THEN [in_buffer |-> buf,
          eff |-> [NoEffect EXCEPT
                     !.nbytes = rcv.n, !.calls = <<"recvfrom", "reset_pollin">>,
                     !.end = IF rcv.errno \in FatalRecvErrno THEN "abort"
                             ELSE "return"]]
    ELSE in_received(rcv.data \o SubSeq(buf, rcv.n + 1, MAX_UDP_MSG), raw_socket,
                     rcv, ga, ba)

in_event(buf, raw_socket, rcv, ga, ba) ==
    IF rcv.n = 0 - 1
    THEN [in_buffer |-> buf,
          eff |-> [NoEffect EXCEPT
                     !.nbytes = rcv.n, !.calls = <<"recvfrom">>,
                     !.end = IF rcv.errno \in FatalRecvErrno THEN "abort"
                             ELSE "return"]]
    ELSE in_received(rcv.data \o SubSeq(buf, rcv.n + 1, MAX_UDP_MSG), raw_socket,
                     rcv, ga, ba)

(***************************************************************************)
(* out_event.  q is the session's outgoing queue; dest names what          *)
(* out_address points to; sres is sendto's answer.  out_buffer is written  *)
(* and then sent within the call and never read afterwards, so it is local *)
(* here: image is what the call writes from out_buffer[0] on, size bytes.  *)
(* Writing more than MAX_UDP_MSG bytes runs past the buffer: the call ends *)
(* "undefined".  The result is the effect, the queue and the raw_address   *)
(* the call leaves.                                                        *)
(***************************************************************************)
Pulls == <<"pull_msg", "pull_msg">>

SendEnd(size, sres) ==
    IF size > MAX_UDP_MSG THEN "undefined"
    ELSE IF sres = "ok" THEN "return" ELSE "abort"

\* out_send taking the group alone off the queue (to see that the property
\* of the pair tells the difference).
out_send_group_only(q, size, image, raw1, dest, sres) ==
    [outq |-> SubSeq(q, 2, Len(q)), raw_address |-> raw1,
     eff |-> [NoEffect EXCEPT
                !.calls = <<"pull_msg", "msg.close", "sendto">>,
                !.pulled = SubSeq(q, 1, 1),
                !.sent = <<[size |-> size, data |-> image,
                            to |-> [via |-> dest,
                                    raw |-> IF dest = "raw_address" THEN raw1
                                            ELSE ZeroSockaddr],
                            rc |-> IF sres = "ok" THEN size ELSE 0 - 1]>>,
                !.end = SendEnd(size, sres)]]

\* From the closing of the two messages on.
out_send(q, size, image, raw1, dest, sres) ==
    [outq |-> SubSeq(q, 3, Len(q)), raw_address |-> raw1,
     eff |-> [NoEffect EXCEPT
                !.calls = Pulls \o <<"msg.close", "msg.close", "sendto">>,
                !.pulled = SubSeq(q, 1, 2),
                !.sent = <<[size |-> size, data |-> image,
                            to |-> [via |-> dest,
                                    raw |-> IF dest = "raw_address" THEN raw1
                                            ELSE ZeroSockaddr],
                            rc |-> IF sres = "ok" THEN size ELSE 0 - 1]>>,
                !.end = SendEnd(size, sres)]]

\* out_raw turning write-interest off when it discards (to see that the
\* property of the discard tells the difference).
out_raw_discard_idle(q, r, body_size, dest, sres) ==
    IF r.rc # 0
    THEN [outq |-> SubSeq(q, 3, Len(q)), raw_address |-> r.raw_address,
          eff |-> [NoEffect EXCEPT
                     !.calls = Pulls \o <<"msg.close", "msg.close", "reset_pollout">>,
                     !.pulled = SubSeq(q, 1, 2)]]
    ELSE out_send(q, body_size, q[2], r.raw_address, dest, sres)

\* Raw mode, r being what resolve_raw_address made of the group.
out_raw(q, r, body_size, dest, sres) ==
    IF r.rc # 0
    THEN \* We discard the message if address is not valid
         [outq |-> SubSeq(q, 3, Len(q)), raw_address |-> r.raw_address,
          eff |-> [NoEffect EXCEPT
                     !.calls = Pulls \o <<"msg.close", "msg.close">>,
                     !.pulled = SubSeq(q, 1, 2)]]
    ELSE out_send(q, body_size, q[2], r.raw_address, dest, sres)

\* out_pair with the datagram's first byte telling the size of the whole
\* datagram (to see that the framing property tells the difference).
out_pair_whole_size(q, group_size, body_size, raw_socket, raw_addr, dest, sres) ==
    IF raw_socket
    THEN out_raw(q, resolve_raw_address(q[1], group_size), body_size, dest, sres)
    ELSE out_send(q, group_size + body_size + 1,
                  <<(group_size + body_size + 1) % ByteRange>> \o q[1] \o q[2],
                  raw_addr, dest, sres)

out_pair(q, group_size, body_size, raw_socket, raw_addr, dest, sres) ==
    IF raw_socket
    THEN out_raw(q, resolve_raw_address(q[1], group_size), body_size, dest, sres)
    ELSE out_send(q, group_size + body_size + 1,
                  <<group_size % ByteRange>> \o q[1] \o q[2], raw_addr, dest, sres)

\* out_event leaving write-interest on when the session has no message (to
\* see that the property of the idle state tells the difference).
out_event_never_idle(q, raw_socket, raw_addr, dest, sres) ==
    IF q = <<>>
    THEN [outq |-> q, raw_address |-> raw_addr,
          eff |-> [NoEffect EXCEPT !.calls = <<"pull_msg">>]]
    ELSE IF Len(q) = 1
    THEN [outq |-> <<>>, raw_address |-> raw_addr,
          eff |-> [NoEffect EXCEPT !.calls = Pulls, !.pulled = q,
                                   !.end = "undefined"]]
    ELSE out_pair(q, Len(q[1]), Len(q[2]), raw_socket, raw_addr, dest, sres)

out_event(q, raw_socket, raw_addr, dest, sres) ==
    IF q = <<>>
    THEN [outq |-> q, raw_address |-> raw_addr,
          eff |-> [NoEffect EXCEPT !.calls = <<"pull_msg", "reset_pollout">>]]
    ELSE IF Len(q) = 1
    THEN \* the second pull fails and body_msg, never initialised, is read
         [outq |-> <<>>, raw_address |-> raw_addr,
          eff |-> [NoEffect EXCEPT !.calls = Pulls, !.pulled = q,
                                   !.end = "undefined"]]
    ELSE out_pair(q, Len(q[1]), Len(q[2]), raw_socket, raw_addr, dest, sres)

\* The calls of restart_output's drain loop over a queue of n messages.
RECURSIVE DrainCalls(_)
DrainCalls(n) == IF n = 0 THEN <<"pull_msg">>
                 ELSE <<"pull_msg", "msg.close">> \o DrainCalls(n - 1)

\* e1 after e0, within one method.
Then(e0, e1) ==
    [e1 EXCEPT !.calls = e0.calls \o @, !.pushed = e0.pushed \o @,
               !.pulled = e0.pulled \o @, !.sent = e0.sent \o @,
               !.bind = IF e0.bind = NoBind THEN @ ELSE e0.bind]

\* o, the result of a call, after the effect e0 of what preceded it.
After(e0, o) == [o EXCEPT !.eff = Then(e0, @)]

\* restart_output dropping one message instead of all messages (to see
\* that the draining property tells the difference).
restart_output_one_message(send, q, raw_socket, raw_addr, dest, sres) ==
    IF ~send
    THEN [outq |-> SubSeq(q, 2, Len(q)), raw_address |-> raw_addr,
          eff |-> [NoEffect EXCEPT !.calls = DrainCalls(Min(Len(q), 1)),
                                   !.pulled = SubSeq(q, 1, Min(Len(q), 1))]]
    ELSE After([NoEffect EXCEPT !.calls = <<"set_pollout">>],
               out_event(q, raw_socket, raw_addr, dest, sres))

\* restart_output leaving the send to the next out_event (to see that the
\* property of the immediate attempt tells the difference).
restart_output_deferred(send, q, raw_socket, raw_addr, dest, sres) ==
    IF ~send
    THEN [outq |-> <<>>, raw_address |-> raw_addr,
          eff |-> [NoEffect EXCEPT !.calls = DrainCalls(Len(q)), !.pulled = q]]
    ELSE [outq |-> q, raw_address |-> raw_addr,
          eff |-> [NoEffect EXCEPT !.calls = <<"set_pollout">>]]

restart_output(send, q, raw_socket, raw_addr, dest, sres) ==
    IF ~send
    THEN \* If we don't support send we just drop all messages
         [outq |-> <<>>, raw_address |-> raw_addr,
          eff |-> [NoEffect EXCEPT !.calls = DrainCalls(Len(q)), !.pulled = q]]
    ELSE After([NoEffect EXCEPT !.calls = <<"set_pollout">>],
               out_event(q, raw_socket, raw_addr, dest, sres))

\* restart_input not looking at recv_enabled (to see that the property of
\* the interests tells the difference).
restart_input_unguarded(recv, buf, raw_socket, rcv, ga, ba) ==
    After([NoEffect EXCEPT !.calls = <<"set_pollin">>],
          in_event(buf, raw_socket, rcv, ga, ba))

restart_input(recv, buf, raw_socket, rcv, ga, ba) ==
    IF ~recv
    THEN [in_buffer |-> buf, eff |-> NoEffect]
    ELSE After([NoEffect EXCEPT !.calls = <<"set_pollin">>],
               in_event(buf, raw_socket, rcv, ga, ba))

(***************************************************************************)
(* plug.  The calls it makes, up to the first one that fails its           *)
(* assertion: a setsockopt or bind fails when the descriptor is not an     *)
(* open socket (fd_ok false) or when the environment makes it fail (fail   *)
(* names it).  bind_to_device's result is not looked at.                   *)
(***************************************************************************)
SysCalls == {"setsockopt.IP_MULTICAST_LOOP", "setsockopt.IPV6_MULTICAST_LOOP",
             "setsockopt.SO_REUSEADDR", "bind",
             "setsockopt.IP_ADD_MEMBERSHIP", "setsockopt.IPV6_ADD_MEMBERSHIP"}

\* The calls of cs up to and including the first system call that fails.
RECURSIVE UpToFailure(_, _, _)
UpToFailure(cs, fd_ok, fail) ==
    IF cs = <<>> THEN <<>>
    ELSE IF Head(cs) \in SysCalls /\ (~fd_ok \/ Head(cs) = fail) THEN <<Head(cs)>>
    ELSE <<Head(cs)>> \o UpToFailure(Tail(cs), fd_ok, fail)

plug_dest(opts, send) ==
    IF ~send THEN "unset"
    ELSE IF ~opts.raw_socket THEN "target_addr" ELSE "raw_address"

\* plug_send turning the write interest on before the loop option is set
\* (to see that the property of the order tells the difference).
plug_send_poll_first(opts, out) ==
    <<"set_pollout">>
    \o (IF opts.raw_socket \/ ~is_multicast(out) THEN <<>>
        ELSE IF out.family = "AF_INET6" THEN <<"setsockopt.IPV6_MULTICAST_LOOP">>
        ELSE <<"setsockopt.IP_MULTICAST_LOOP">>)

\* The send direction's configuration.
plug_send(opts, out) ==
    (IF opts.raw_socket \/ ~is_multicast(out) THEN <<>>
     ELSE IF out.family = "AF_INET6" THEN <<"setsockopt.IPV6_MULTICAST_LOOP">>
     ELSE <<"setsockopt.IP_MULTICAST_LOOP">>)
    \o <<"set_pollout">>

\* The receive direction's configuration, up to set_pollin.
plug_recv(addr) ==
    <<"setsockopt.SO_REUSEADDR", "bind">>
    \o (IF ~addr.is_mcast THEN <<>>
        ELSE IF addr.target_addr.family = "AF_INET"
        THEN <<"setsockopt.IP_ADD_MEMBERSHIP">>
        ELSE <<"setsockopt.IPV6_ADD_MEMBERSHIP">>)
    \o <<"set_pollin">>

plug_calls(opts, addr, send, recv) ==
    <<"io_object.plug", "add_fd">>
    \o (IF opts.bound_device THEN <<"bind_to_device">> ELSE <<>>)
    \o (IF send THEN plug_send(opts, addr.target_addr) ELSE <<>>)
    \o (IF recv THEN plug_recv(addr) ELSE <<>>)

\* What the calls made say plug did: bind was given real_bind_addr.
plug_effect(calls, addr, end) ==
    [NoEffect EXCEPT !.calls = calls, !.end = end,
                     !.bind = IF Count(calls, "bind") = 1 THEN real_bind_addr(addr)
                              ELSE NoBind]

plug_made(calls, wanted, opts, addr, send, recv, q, raw_addr, sres) ==
    IF calls # wanted
    THEN [outq |-> q, raw_address |-> raw_addr,
          eff |-> plug_effect(calls, addr, "abort")]
    ELSE IF ~recv
    THEN [outq |-> q, raw_address |-> raw_addr,
          eff |-> plug_effect(calls, addr, "return")]
    ELSE \* Call restart output to drop all join/leave commands
         After(plug_effect(calls, addr, "return"),
               restart_output(send, q, opts.raw_socket, raw_addr,
                              plug_dest(opts, send), sres))

plug_from(wanted, opts, addr, send, recv, fd_ok, q, raw_addr, fail, sres) ==
    plug_made(UpToFailure(wanted, fd_ok, fail), wanted, opts, addr, send, recv, q,
              raw_addr, sres)

plug(opts, addr, send, recv, fd_ok, q, raw_addr, fail, sres) ==
    plug_from(plug_calls(opts, addr, send, recv), opts, addr, send, recv, fd_ok, q,
              raw_addr, fail, sres)

(***************************************************************************)
(* State.  The engine's fields keep their names; fd is retired_fd or the   *)
(* number of a socket, session and handle are 0 for NULL, out_address is   *)
(* the name of what it points to.  The rest is the engine's surroundings:  *)
(*   obj      "live", "deleted" (after delete this), "aborted" (an         *)
(*            assertion ended the process) or "undefined";                 *)
(*   socks    each socket open_socket can return: unused, open or closed;  *)
(*   reactor  the descriptor registered with the poller (0: none) and the  *)
(*            two interest flags;                                          *)
(*   outq     the messages the session holds for pull_msg;                 *)
(*   last     the last method called, what it was given and what it did;   *)
(*   codec, frame  the inputs and results of the two round-trip            *)
(*            specifications.                                              *)
(***************************************************************************)
VARIABLES plugged, fd, session, handle, address, options, send_enabled,
          recv_enabled, in_buffer, raw_address, out_address,
          obj, socks, reactor, outq, last, in_order, codec, frame

fields == <<plugged, fd, session, handle, address, options, send_enabled,
            recv_enabled, in_buffer, raw_address, out_address>>
world == <<obj, socks, reactor, outq, last, in_order>>
vars == <<fields, world, codec, frame>>

NoInput == [n |-> 0 - 2, errno |-> "none", src |-> ZeroSockaddr,
            ga |-> TRUE, ba |-> TRUE, sres |-> "ok"]
NoCall == [op |-> "none", input |-> NoInput, eff |-> NoEffect]
IdleCodec == [stage |-> "idle", kind |-> "none", addr |-> ZeroSockaddr,
              text |-> <<>>, rc |-> 0]
IdleFrame == [stage |-> "idle", group |-> <<>>, body |-> <<>>, dgram |-> <<>>,
              pushed |-> <<>>]

\* The state the constructor leaves, for the options it is given.  in_buffer
\* is not initialised: it holds any bytes (here, any one byte repeated).
Constructed(Options, Fills) ==
    /\ plugged = FALSE
    /\ fd = retired_fd
    /\ session = 0
    /\ handle = 0
    /\ address = NullAddress
    /\ options \in Options
    /\ send_enabled = FALSE
    /\ recv_enabled = FALSE
    /\ \E b \in Fills : in_buffer = [i \in 1 .. MAX_UDP_MSG |-> b]
    /\ raw_address = ZeroSockaddr
    /\ out_address = "unset"
    /\ obj = "live"
    /\ socks = [i \in 1 .. MaxInit |-> "unused"]
    /\ reactor = [fd |-> 0, pollin |-> FALSE, pollout |-> FALSE]
    /\ last = NoCall
    /\ in_order = TRUE

sock_open == fd \in 1 .. MaxInit /\ socks[fd] = "open"

\* How a method that ended e.end leaves the process.
Ended(e) == IF e.end = "return" THEN obj ELSE IF e.end = "abort" THEN "aborted"
            ELSE "undefined"

(***************************************************************************)
(* init (address_, send_, recv_).  open_socket returns a fresh socket or   *)
(* retired_fd.  in_order records whether the calls so far came in the      *)
(* order the engine's callers keep: one init, which succeeds, then plug,   *)
(* then terminate, and nothing after it.                                   *)
(***************************************************************************)
\* open_socket returns the lowest descriptor not in use.
LowestUnused == {i \in 1 .. MaxInit : /\ socks[i] = "unused"
                                      /\ \A j \in 1 .. i - 1 : socks[j] # "unused"}

EngineInit(Addresses) ==
    \E address_ \in Addresses, send_ \in BOOLEAN, recv_ \in BOOLEAN,
       new \in {retired_fd} \cup LowestUnused :
        /\ obj = "live"
        /\ IF address_.null \/ ~(send_ \/ recv_)
           THEN /\ obj' = "aborted"
                /\ UNCHANGED <<fields, socks, in_order>>
           ELSE /\ send_enabled' = send_
                /\ recv_enabled' = recv_
                /\ address' = address_
                /\ fd' = new
                /\ socks' = IF new = retired_fd THEN socks
                            ELSE [socks EXCEPT ![new] = "open"]
                /\ in_order' = (in_order /\ last.op = "none" /\ new # retired_fd)
                /\ UNCHANGED <<plugged, session, handle, options, in_buffer,
                               raw_address, out_address, obj>>
        /\ last' = [NoCall EXCEPT !.op = "init"]
        /\ UNCHANGED <<reactor, outq, codec, frame>>

(***************************************************************************)
(* plug (io_thread_, session_).  add_fd is the reactor's: given            *)
(* retired_fd it may take it or fail (reg_ok).                             *)
(***************************************************************************)
Plug ==
    \E fail \in SysCalls \cup {"none"}, sres \in {"ok", "EAGAIN", "EMSGSIZE"},
       reg_ok \in BOOLEAN :
        /\ obj = "live"
        /\ reg_ok \/ fd = retired_fd
        \* the environment's answers are drawn only where plug asks for them
        /\ fail = "none"
           \/ Count(plug_calls(options, address, send_enabled, recv_enabled), fail) > 0
        /\ sres = "ok" \/ (send_enabled /\ recv_enabled /\ Len(outq) >= 2)
        /\ IF plugged \/ session # 0
           THEN /\ obj' = "aborted"
                /\ last' = [NoCall EXCEPT !.op = "plug", !.eff.end = "abort"]
                /\ UNCHANGED <<fields, socks, reactor, outq, in_order>>
           ELSE IF ~reg_ok
           THEN /\ obj' = "aborted"
                /\ plugged' = TRUE
                /\ session' = 1
                /\ last' = [NoCall EXCEPT !.op = "plug", !.eff.end = "abort",
                              !.eff.calls = <<"io_object.plug", "add_fd">>]
                /\ UNCHANGED <<fd, handle, address, options, send_enabled,
                               recv_enabled, in_buffer, raw_address, out_address,
                               socks, reactor, outq, in_order>>
           ELSE LET p == plug(options, address, send_enabled, recv_enabled,
                              sock_open, outq, raw_address, fail,
                              IF sock_open THEN sres ELSE "EBADF")
                IN /\ plugged' = TRUE
                   /\ session' = 1
                   /\ handle' = fd
                   /\ out_address' = IF send_enabled
                                     THEN plug_dest(options, send_enabled)
                                     ELSE out_address
                   /\ raw_address' = p.raw_address
                   /\ outq' = p.outq
                   /\ reactor' = Replay([reactor EXCEPT !.fd = fd], p.eff.calls)
                   /\ obj' = Ended(p.eff)
                   /\ last' = [NoCall EXCEPT !.op = "plug", !.eff = p.eff,
                                 !.input.sres = sres]
                   /\ in_order' = (in_order /\ last.op = "init")
                   /\ UNCHANGED <<fd, address, options, send_enabled, recv_enabled,
                                  in_buffer, socks>>
        /\ UNCHANGED <<codec, frame>>

(***************************************************************************)
(* terminate, and the destructor delete this runs.                         *)
(***************************************************************************)
\* terminate with a destructor that leaves the socket open (to see that the
\* property of the engine's life tells the difference).
Terminate_no_close ==
    /\ obj = "live"
    /\ IF ~plugged
       THEN /\ obj' = "aborted"
            /\ last' = [NoCall EXCEPT !.op = "terminate", !.eff.end = "abort"]
            /\ UNCHANGED <<fields, socks, reactor>>
       ELSE /\ plugged' = FALSE
            /\ reactor' = [fd |-> 0, pollin |-> FALSE, pollout |-> FALSE]
            /\ obj' = "deleted"
            /\ last' = [NoCall EXCEPT !.op = "terminate",
                          !.eff.calls = <<"rm_fd", "io_object.unplug">>]
            /\ UNCHANGED <<fd, socks, session, handle, address, options,
                           send_enabled, recv_enabled, in_buffer, raw_address,
                           out_address>>
    /\ in_order' = (in_order /\ plugged)
    /\ UNCHANGED <<outq, codec, frame>>

Terminate ==
    /\ obj = "live"
    /\ IF ~plugged
       THEN /\ obj' = "aborted"
            /\ last' = [NoCall EXCEPT !.op = "terminate", !.eff.end = "abort"]
            /\ UNCHANGED <<fields, socks, reactor>>
       ELSE /\ plugged' = FALSE
            /\ reactor' = [fd |-> 0, pollin |-> FALSE, pollout |-> FALSE]
            /\ IF fd = retired_fd
               THEN /\ obj' = "deleted"
                    /\ last' = [NoCall EXCEPT !.op = "terminate",
                                  !.eff.calls = <<"rm_fd", "io_object.unplug">>]
                    /\ UNCHANGED <<fd, socks>>
               ELSE /\ obj' = IF socks[fd] = "open" THEN "deleted" ELSE "aborted"
                    /\ socks' = [socks EXCEPT ![fd] = "closed"]
                    /\ fd' = IF socks[fd] = "open" THEN retired_fd ELSE fd
                    /\ last' = [NoCall EXCEPT !.op = "terminate",
                                  !.eff.calls = <<"rm_fd", "io_object.unplug", "close">>,
                                  !.eff.end = IF socks[fd] = "open" THEN "return"
                                              ELSE "abort"]
            /\ UNCHANGED <<session, handle, address, options, send_enabled,
                           recv_enabled, in_buffer, raw_address, out_address>>
    /\ in_order' = (in_order /\ plugged)
    /\ UNCHANGED <<outq, codec, frame>>

\* Any method called on the engine after delete this.
UseAfterDelete ==
    /\ obj = "deleted"
    /\ obj' = "undefined"
    /\ in_order' = FALSE
    /\ last' = [NoCall EXCEPT !.op = "use_after_delete", !.eff.end = "undefined"]
    /\ UNCHANGED <<fields, socks, reactor, outq, codec, frame>>

(***************************************************************************)
(* The reactor's and the session's calls on an attached engine.            *)
(***************************************************************************)
\* The failures of recvfrom that come of the state of the system and not of
\* the arguments: would-block, network down, no buffer space, no memory.
TransientErrnos == {"EAGAIN", "ENETDOWN", "ENOBUFS", "ENOMEM"}
RecvErrnos == TransientErrnos
SendResults == {"ok", "EAGAIN", "EMSGSIZE"}

\* What recvfrom can return: a datagram of Dgrams from a peer, cut to the
\* buffer's size, or a failure; on a descriptor that is no open socket, EBADF.
Receipts(Dgrams, Peers) ==
    IF ~sock_open
    THEN {[n |-> 0 - 1, errno |-> "EBADF", data |-> <<>>, src |-> ZeroSockaddr]}
    ELSE {[n |-> Min(Len(d), MAX_UDP_MSG), errno |-> "none",
           data |-> SubSeq(d, 1, Min(Len(d), MAX_UDP_MSG)), src |-> p] :
             d \in Dgrams, p \in Peers}
         \cup {[n |-> 0 - 1, errno |-> e, data |-> <<>>, src |-> ZeroSockaddr] :
                 e \in RecvErrnos}

\* The session's answers to the two pushes (the second is asked only after
\* the first was accepted).
Answers == {<<TRUE, TRUE>>, <<TRUE, FALSE>>, <<FALSE, TRUE>>}

SendAnswers == IF sock_open THEN SendResults ELSE {"EBADF"}

Peer(raw, Peers) == IF raw THEN Peers ELSE {ZeroSockaddr}

attached == obj = "live" /\ plugged

NoReceipt == [n |-> 0 - 2, errno |-> "none", data |-> <<>>, src |-> ZeroSockaddr]

\* The session's answers are drawn only when the call pushes.
Asked(i, a) == i.eff.pushed # <<>> \/ a = <<TRUE, TRUE>>

Received(op, i, rcv, a) ==
    /\ Asked(i, a)
    /\ in_buffer' = i.in_buffer
    /\ reactor' = Replay(reactor, i.eff.calls)
    /\ obj' = Ended(i.eff)
    /\ last' = [NoCall EXCEPT !.op = op, !.eff = i.eff, !.input.n = rcv.n,
                  !.input.errno = rcv.errno, !.input.src = rcv.src,
                  !.input.ga = a[1], !.input.ba = a[2]]
    /\ UNCHANGED <<plugged, fd, session, handle, address, options, send_enabled,
                   recv_enabled, raw_address, out_address, socks, outq, in_order,
                   codec, frame>>

InEvent(Dgrams, Peers) ==
    /\ attached /\ reactor.fd = handle /\ reactor.pollin
    /\ \E rcv \in Receipts(Dgrams, Peer(options.raw_socket, Peers)), a \in Answers :
        /\ Received("in_event", in_event(in_buffer, options.raw_socket, rcv, a[1], a[2]),
                    rcv, a)

RestartInput(Dgrams, Peers) ==
    /\ attached
    /\ \E rcv \in Receipts(Dgrams, Peer(options.raw_socket, Peers)), a \in Answers :
        /\ recv_enabled \/ rcv.errno = "EAGAIN" \/ ~sock_open
        /\ Received("restart_input",
                    restart_input(recv_enabled, in_buffer, options.raw_socket, rcv,
                                  a[1], a[2]),
                    IF recv_enabled THEN rcv ELSE NoReceipt, a)

Sent(op, o, sres) ==
    /\ outq' = o.outq
    /\ raw_address' = o.raw_address
    /\ reactor' = Replay(reactor, o.eff.calls)
    /\ obj' = Ended(o.eff)
    /\ last' = [NoCall EXCEPT !.op = op, !.eff = o.eff, !.input.sres = sres]
    /\ UNCHANGED <<plugged, fd, session, handle, address, options, send_enabled,
                   recv_enabled, in_buffer, out_address, socks, in_order, codec,
                   frame>>

OutEvent ==
    /\ attached /\ reactor.fd = handle /\ reactor.pollout
    /\ \E sres \in SendAnswers :
        /\ outq # <<>> \/ sres = "ok"
        /\ Sent("out_event",
                out_event(outq, options.raw_socket, raw_address, out_address, sres),
                sres)

RestartOutput ==
    /\ attached
    /\ \E sres \in SendAnswers :
        /\ (send_enabled /\ outq # <<>>) \/ sres \in {"ok", "EBADF"}
        /\ Sent("restart_output",
                restart_output(send_enabled, outq, options.raw_socket, raw_address,
                               out_address, sres),
                sres)

\* The session gets a group and its body to send.
SessionQueue(Groups, RawGroups, Bodies) ==
    /\ obj = "live"
    /\ Len(outq) + 2 <= MaxQueue
    /\ \E g \in (IF options.raw_socket THEN RawGroups ELSE Groups), b \in Bodies :
        outq' = outq \o <<g, b>>
    /\ UNCHANGED <<fields, obj, socks, reactor, last, in_order, codec, frame>>

\* The session of a receive-only engine gets a join or leave command.
SessionCommand ==
    /\ obj = "live"
    /\ recv_enabled /\ ~send_enabled
    /\ Len(outq) + 1 <= MaxQueue
    /\ outq' = Append(outq, <<>>)
    /\ UNCHANGED <<fields, obj, socks, reactor, last, in_order, codec, frame>>

(***************************************************************************)
(* The engine with its surroundings.  Spec follows an engine with a        *)
(* unicast address, framed or raw, whose callers keep the order of its     *)
(* life, through datagrams shorter and longer than they say and messages   *)
(* up to and past the size of the buffer.                                  *)
(***************************************************************************)
\* A character string, given character by character, as ASCII codes.
Chr(str) == CASE str = "0" -> 48 [] str = "1" -> 49 [] str = "2" -> 50
              [] str = "3" -> 51 [] str = "4" -> 52 [] str = "5" -> 53
              [] str = "6" -> 54 [] str = "7" -> 55 [] str = "8" -> 56
              [] str = "9" -> 57 [] str = "." -> Dot [] str = ":" -> Colon
              [] str = "a" -> 97 [] str = "x" -> 120 [] str = " " -> 32
              [] str = "-" -> 45
Text(cs) == [i \in 1 .. Len(cs) |-> Chr(cs[i])]

AllOptions == [raw_socket : BOOLEAN, bound_device : BOOLEAN]
PlainOptions == [raw_socket : BOOLEAN, bound_device : {FALSE}]
Addresses == {NullAddress, UnicastV4, MulticastV4, MulticastV6}

Peers == {Sockaddr(5555, <<10, 0, 0, 2>>)}
\* A group that names no endpoint: its port reads 0.
UnparsableGroups == {Text(<<"1", "0", ".", "0", ".", "0", ".", "2", ":", "0">>)}
RawGroups == {Text(<<"1", "0", ".", "0", ".", "0", ".", "2", ":", "8", "0">>)}
             \cup UnparsableGroups

Filled(k, b) == [i \in 1 .. k |-> b]

\* The datagrams a peer sends: empty, or a first byte and no, one or
\* MAX_UDP_MSG more bytes (one more than the buffer holds), the i-th of them
\* i modulo ByteRange.
Dgrams == {<<>>} \cup {<<g>> \o [i \in 1 .. k |-> i % ByteRange] :
                         g \in Byte, k \in {0, 1, MAX_UDP_MSG}}
\* The datagrams that meet a restart_input: the short ones.
FewDgrams == {d \in Dgrams : Len(d) <= 2 /\ (d = <<>> \/ d[1] <= 1)}

\* The messages the session sends: with the largest body a datagram holds
\* when the group is empty, and with a body one byte longer than the buffer.
Groups == {Filled(k, 1) : k \in {0, 1}}
Bodies == {Filled(k, 0) : k \in {MAX_UDP_MSG - 1, MAX_UDP_MSG + 1}}

\* The callers keep the order of the engine's life.
InOrder(A) == A /\ in_order'

Init ==
    /\ Constructed(PlainOptions, {0, ByteRange - 1})
    /\ outq = <<>>
    /\ codec = IdleCodec
    /\ frame = IdleFrame

Next ==
    \/ InOrder(EngineInit({UnicastV4}))
    \/ InOrder(Plug)
    \/ Terminate
    \/ InEvent(Dgrams, Peers)
    \/ OutEvent
    \/ RestartInput(FewDgrams, Peers)
    \/ RestartOutput
    \/ SessionQueue(Groups, RawGroups, Bodies)
    \/ SessionCommand

Spec == Init /\ [][Next]_vars

(***************************************************************************)
(* The engine's life alone, in every configuration and with the calls in   *)
(* any order: init, plug and terminate, and a session whose queue fills.   *)
(***************************************************************************)
InitLife ==
    /\ Constructed(AllOptions, {0})
    /\ outq = <<>>
    /\ codec = IdleCodec
    /\ frame = IdleFrame

NextLife ==
    \/ EngineInit(Addresses)
    \/ Plug
    \/ Terminate
    \/ UseAfterDelete
    \/ SessionQueue({<<1>>}, RawGroups, {<<0>>})
    \/ SessionCommand

SpecLife == InitLife /\ [][NextLife]_vars

(***************************************************************************)
(* The raw endpoint codec alone: an address is formatted by                *)
(* sockaddr_to_msg and the text is parsed by resolve_raw_address, or a     *)
(* text that names no endpoint is parsed.                                  *)
(***************************************************************************)
Octet == {0, 1, 10, 255}
Ports == {1, 80, 256, 65535}
CodecAddrs == {Sockaddr(p, <<a, b, c, d>>) :
                 p \in Ports, a \in Octet, b \in Octet, c \in Octet, d \in Octet}

NoColonTexts == {<<>>, Text(<<"1", "0", ".", "0", ".", "0", ".", "2">>),
                 Text(<<"8", "0">>)}
PortZeroTexts == {Text(<<"1", "0", ".", "0", ".", "0", ".", "2", ":", "0">>),
                  Text(<<"1", "0", ".", "0", ".", "0", ".", "2", ":">>),
                  Text(<<"1", "0", ".", "0", ".", "0", ".", "2", ":", "x">>),
                  Text(<<"1", "0", ".", "0", ".", "0", ".", "2", ":", "-", "0">>)}
BadHostTexts == {Text(<<":", "8", "0">>),
                 Text(<<"a", ":", "8", "0">>),
                 Text(<<"1", "0", ".", "0", ".", "0", ".", "x", ":", "8", "0">>),
                 Text(<<"1", "0", ".", "0", ".", "0", ".", "2", "5", "6", ":", "8", "0">>),
                 Text(<<"1", ".", "2", ".", "3", ".", "4", ".", "5", ":", "8", "0">>),
                 Text(<<"1", "0", " ", "0", ":", "8", "0">>)}

CodecInputs ==
    {[IdleCodec EXCEPT !.stage = "addr", !.kind = "addr", !.addr = a] :
       a \in CodecAddrs}
    \cup {[IdleCodec EXCEPT !.stage = "text", !.kind = "no_colon", !.text = t] :
            t \in NoColonTexts}
    \cup {[IdleCodec EXCEPT !.stage = "text", !.kind = "port_zero", !.text = t] :
            t \in PortZeroTexts}
    \cup {[IdleCodec EXCEPT !.stage = "text", !.kind = "bad_host", !.text = t] :
            t \in BadHostTexts}

InitCodec ==
    /\ Constructed({[raw_socket |-> TRUE, bound_device |-> FALSE]}, {0})
    /\ outq = <<>>
    /\ frame = IdleFrame
    /\ codec \in CodecInputs

\* sockaddr_to_msg writes the sender's address into a message.
CodecFormat ==
    /\ codec.stage = "addr"
    /\ codec' = [codec EXCEPT !.stage = "text",
                              !.text = sockaddr_to_msg(codec.addr).data]
    /\ UNCHANGED <<fields, world, frame>>

Parsed(r) ==
    /\ raw_address' = r.raw_address
    /\ codec' = [codec EXCEPT !.stage = "parsed", !.rc = r.rc]

\* resolve_raw_address reads the message's data, all of its size.
CodecParse ==
    /\ codec.stage = "text"
    /\ Parsed(resolve_raw_address(codec.text, Len(codec.text)))
    /\ UNCHANGED <<plugged, fd, session, handle, address, options, send_enabled,
                   recv_enabled, in_buffer, out_address, world, frame>>

NextCodec == CodecFormat \/ CodecParse

SpecCodec == InitCodec /\ [][NextCodec]_vars

(***************************************************************************)
(* Framing alone: a group and a body go through out_event's framed path    *)
(* to sendto, and the datagram sent comes back through in_event's framed   *)
(* path, the session accepting both pushes.                                *)
(***************************************************************************)
FrameInputs ==
    {[IdleFrame EXCEPT !.stage = "msg", !.group = g, !.body = b] :
       g \in SeqUpTo(Byte, ByteRange), b \in SeqUpTo(Byte, MAX_UDP_MSG - 1)}

InitFrame ==
    /\ Constructed({[raw_socket |-> FALSE, bound_device |-> FALSE]}, {ByteRange - 1})
    /\ outq = <<>>
    /\ codec = IdleCodec
    /\ frame \in FrameInputs

Framed(o) ==
    frame' = IF o.eff.end = "return"
             THEN [frame EXCEPT !.stage = "sent", !.dgram = o.eff.sent[1].data]
             ELSE [frame EXCEPT !.stage = "overflow"]

FrameSend ==
    /\ frame.stage = "msg"
    /\ Framed(out_event(<<frame.group, frame.body>>, options.raw_socket,
                        raw_address, "target_addr", "ok"))
    /\ UNCHANGED <<fields, world, codec>>

Unframed(i) ==
    /\ in_buffer' = i.in_buffer
    /\ frame' = [frame EXCEPT !.stage = "received", !.pushed = i.eff.pushed]

FrameRecv ==
    /\ frame.stage = "sent"
    /\ Unframed(in_event(in_buffer, options.raw_socket,
                         [n |-> Len(frame.dgram), errno |-> "none",
                          data |-> frame.dgram, src |-> ZeroSockaddr],
                         TRUE, TRUE))
    /\ UNCHANGED <<plugged, fd, session, handle, address, options, send_enabled,
                   recv_enabled, raw_address, out_address, world, codec>>

NextFrame == FrameSend \/ FrameRecv

SpecFrame == InitFrame /\ [][NextFrame]_vars

(***************************************************************************)
(* Properties.  The receive path is read off last: the method called, what *)
(* recvfrom and the session answered, and the calls the method made.       *)
(***************************************************************************)
InCall == last.op \in {"in_event", "restart_input"}

\* The session's part of the calls of the last method.
SessionCalls ==
    SelectSeq(last.eff.calls, LAMBDA c : c \in {"push_msg", "reset", "flush"})

GroupRejected ==
    /\ InCall
    /\ Len(last.eff.pushed) >= 1
    /\ last.eff.pushed[1].rc # 0

BodyRejected ==
    /\ InCall
    /\ Len(last.eff.pushed) >= 2
    /\ last.eff.pushed[1].rc = 0
    /\ last.eff.pushed[2].rc # 0

BothAccepted ==
    /\ InCall
    /\ Len(last.eff.pushed) >= 2
    /\ last.eff.pushed[1].rc = 0
    /\ last.eff.pushed[2].rc = 0

\* C1: when the session accepts the group push and rejects the body push,
\* in_event calls the session's reset exactly once, never flush, and leaves
\* read-interest off, reset_pollin being its last call.
C1_BodyRejectResets ==
    BodyRejected =>
        /\ Count(last.eff.calls, "reset") = 1
        /\ Count(last.eff.calls, "flush") = 0
        /\ last.eff.calls[Len(last.eff.calls)] = "reset_pollin"
        /\ ~reactor.pollin

C1_Witness ==
    /\ BodyRejected
    /\ last.op = "in_event"
    /\ SessionCalls = <<"push_msg", "push_msg", "reset">>

\* C2: when the session rejects the group push, in_event attempts no body
\* push, calls neither reset nor flush, and leaves read-interest off.
C2_GroupRejectIsClean ==
    GroupRejected =>
        /\ Len(last.eff.pushed) = 1
        /\ Count(last.eff.calls, "push_msg") = 1
        /\ Count(last.eff.calls, "reset") = 0
        /\ Count(last.eff.calls, "flush") = 0
        /\ ~reactor.pollin

C2_Witness ==
    /\ GroupRejected
    /\ last.op = "in_event"
    /\ SessionCalls = <<"push_msg">>

\* A framed datagram shorter than one byte more than its first byte says,
\* or of no byte at all.  After the call in_buffer holds the datagram, so
\* in_buffer[1] is its first byte when it has one.
TruncatedFramed ==
    /\ InCall
    /\ ~options.raw_socket
    /\ last.input.n >= 0
    /\ last.input.n = 0 \/ last.input.n < 1 + in_buffer[1]

\* C3: in framed mode a datagram shorter than 1 + its first byte, the
\* zero-length datagram included, is pushed to the session not at all, with
\* no flush and no reset, and read-interest stays as it was: on.
C3_TruncatedIsDropped ==
    TruncatedFramed =>
        /\ last.eff.pushed = <<>>
        /\ SessionCalls = <<>>
        /\ Count(last.eff.calls, "reset_pollin") = 0
        /\ reactor.pollin

C3_Witness ==
    /\ TruncatedFramed
    /\ last.op = "in_event"
    /\ last.input.n = 0
    /\ in_buffer[1] = 0

\* C4: a group whose length one byte holds and a body that fits with it in
\* a datagram, sent by out_event's framed path and received by in_event's,
\* the session accepting both pushes, arrive as exactly that group (marked
\* more) followed by exactly that body.
C4_FramingRoundTrip ==
    (frame.stage = "received" /\ Len(frame.group) < ByteRange) =>
        frame.pushed = <<[msg |-> [data |-> frame.group, more |-> TRUE], rc |-> 0],
                         [msg |-> [data |-> frame.body, more |-> FALSE], rc |-> 0]>>

C4_Witness ==
    /\ frame.stage = "received"
    /\ Len(frame.group) = ByteRange - 1
    /\ Len(frame.body) = MAX_UDP_MSG - ByteRange
    /\ frame.group # frame.body
    /\ Len(frame.dgram) = MAX_UDP_MSG
    /\ Len(frame.pushed) = 2

\* The pair in_event pushes, read from the datagram now in in_buffer.
PushedFromBuffer ==
    IF options.raw_socket
    THEN /\ last.eff.pushed[1].msg = sockaddr_to_msg(last.input.src)
         /\ last.eff.pushed[2].msg =
              [data |-> SubSeq(in_buffer, 1, last.input.n), more |-> FALSE]
    ELSE /\ last.eff.pushed[1].msg =
              [data |-> SubSeq(in_buffer, 2, 1 + in_buffer[1]), more |-> TRUE]
         /\ last.eff.pushed[2].msg =
              [data |-> SubSeq(in_buffer, 2 + in_buffer[1], last.input.n),
               more |-> FALSE]

\* C9: when both pushes are accepted in_event pushes the group, marked
\* more, then the body, then calls flush, once; in every other outcome,
\* and in every other method, flush is not called.
C9_FlushOnlyAfterPair ==
    /\ BothAccepted =>
        /\ SessionCalls = <<"push_msg", "push_msg", "flush">>
        /\ Len(last.eff.pushed) = 2
        /\ last.eff.pushed[1].msg.more
        /\ PushedFromBuffer
    /\ ~BothAccepted => Count(last.eff.calls, "flush") = 0

C9_Witness ==
    /\ BothAccepted
    /\ last.op = "in_event"
    /\ ~options.raw_socket
    /\ Len(last.eff.pushed[1].msg.data) >= 1
    /\ Len(last.eff.pushed[2].msg.data) >= 1
    /\ Count(last.eff.calls, "flush") = 1

\* C10: no datagram passed to sendto is larger than MAX_UDP_MSG, the size
\* of out_buffer, in framed mode or in raw mode.
C10_NeverOverMaximum ==
    \A i \in DOMAIN last.eff.sent : last.eff.sent[i].size <= MAX_UDP_MSG

\* C7: an address and a port of 1..65535 written by sockaddr_to_msg are
\* read back by resolve_raw_address as the same address and port, and
\* resolve_raw_address returns -1 for a text with no colon, with a port
\* that reads as 0, or with a host that is no IPv4 address.
C7_RawAddressRoundTrip ==
    codec.stage = "parsed" =>
        IF codec.kind = "addr"
        THEN codec.rc = 0 /\ raw_address = codec.addr
        ELSE codec.rc = 0 - 1

\* The session's steps add to its queue and call no method of the engine.
SessionStep == Len(outq') > Len(outq) /\ UNCHANGED last

\* The step is plug, returning, or restart_output, on an engine that
\* receives and does not send.
DrainStep ==
    /\ ~SessionStep
    /\ recv_enabled /\ ~send_enabled
    /\ last'.op \in {"plug", "restart_output"}
    /\ last'.eff.end = "return"

\* C5: with sending disabled, plug and every restart_output pull every
\* message the session holds for the engine and leave its queue empty,
\* without a sendto and without turning write-interest on.
C5_ReceiveOnlyDrains ==
    [][DrainStep =>
         /\ outq' = <<>>
         /\ last'.eff.pulled = outq
         /\ Count(last'.eff.calls, "pull_msg") = Len(outq) + 1
         /\ last'.eff.sent = <<>>
         /\ Count(last'.eff.calls, "sendto") = 0
         /\ Count(last'.eff.calls, "set_pollout") = 0
         /\ ~reactor'.pollout]_vars

C5_Witness ==
    /\ last.op = "plug"
    /\ obj = "live"
    /\ ~send_enabled
    /\ Len(last.eff.pulled) = MaxQueue
    /\ outq = <<>>

\* plug called bind.
Bound == last.op = "plug" /\ Count(last.eff.calls, "bind") = 1

\* C8: plug binds a receiving engine whose address is multicast to the
\* wildcard address of the bind address's family, with the bind address's
\* port, never to the group's address; one whose address is not multicast
\* is bound to the bind address itself.  plug binds whenever receive is
\* enabled and the socket takes SO_REUSEADDR, and never otherwise.
C8_BindTarget ==
    /\ Bound =>
        /\ recv_enabled
        /\ IF address.is_mcast
           THEN /\ last.eff.bind.family = address.bind_addr.family
                /\ last.eff.bind.ip = IF address.bind_addr.family = "AF_INET6"
                                      THEN "::" ELSE "0.0.0.0"
                /\ last.eff.bind.port = address.bind_addr.port
                /\ last.eff.bind # address.target_addr
           ELSE last.eff.bind = address.bind_addr
    /\ (last.op = "plug" /\ recv_enabled /\ last.eff.end = "return") => Bound
    /\ ~Bound => last.eff.bind = NoBind

C8_Witness ==
    /\ Bound
    /\ address.is_mcast
    /\ address.bind_addr.family = "AF_INET6"
    /\ last.eff.end = "return"
    /\ last.eff.bind.ip = "::"

(***************************************************************************)
(* The engine's life.  Unattached, attached and terminated are read from   *)
(* the engine's fields and from the reactor's registration.                *)
(***************************************************************************)
Unattached == obj = "live" /\ ~plugged /\ session = 0 /\ reactor.fd = 0
Attached == obj = "live" /\ plugged /\ session # 0 /\ reactor.fd = handle
Terminated == obj = "deleted" /\ ~plugged /\ reactor.fd = 0

ExactlyOne(a, b, c) == (a /\ ~b /\ ~c) \/ (~a /\ b /\ ~c) \/ (~a /\ ~b /\ c)

Phase == IF Terminated THEN "terminated" ELSE IF Attached THEN "attached"
         ELSE IF Unattached THEN "unattached" ELSE "none"

Closed == {i \in 1 .. MaxInit : socks[i] = "closed"}
Opened == {i \in 1 .. MaxInit : socks[i] # "unused"}

\* What holds of the engine in each state of its life, unless an assertion
\* has ended the process: it is in exactly one of the three states; attached,
\* its socket is open and is the one registered; terminated, every socket it
\* opened is closed, deregistered first.
LifeOK ==
    /\ obj # "undefined"
    /\ obj # "aborted" =>
        /\ ExactlyOne(Unattached, Attached, Terminated)
        /\ Attached => sock_open /\ handle = fd
        /\ ~Terminated => Closed = {}
        /\ Terminated =>
            /\ fd = retired_fd
            /\ Closed = Opened
            /\ Cardinality(Closed) = 1
            /\ last.eff.calls = <<"rm_fd", "io_object.unplug", "close">>

\* The steps of the engine's life: plug attaches an unattached engine,
\* terminate ends an attached one, and there is no other change of state.
LifeStep ==
    (obj' # "aborted" /\ Phase' # Phase) =>
        \/ Phase = "unattached" /\ Phase' = "attached" /\ last'.op = "plug"
        \/ Phase = "attached" /\ Phase' = "terminated" /\ last'.op = "terminate"

\* plug on an attached engine is refused: the assertion ends the process.
SecondPlugRefused ==
    (~SessionStep /\ obj = "live" /\ plugged /\ last'.op = "plug") =>
        obj' = "aborted"

\* C6: over any sequence of init, plug and terminate calls, nothing the
\* engine does is undefined and, until an assertion ends the process, it is
\* in exactly one of unattached, attached and terminated, its socket is
\* open while it is attached, and every socket it opened is closed, once
\* and after it was deregistered, when it is terminated.
C6_LifecycleAnySequence == LifeOK

\* C6, amended: when the calls come in the callers' order (one init, which
\* gets a socket, then plug, then terminate, and no call after it), the
\* engine is in exactly one of unattached, attached and terminated until an
\* assertion ends the process; it changes state only by plug, from
\* unattached to attached, and by terminate, from attached to terminated; a
\* second plug is refused; its socket is open while it is attached, is
\* deregistered before it is closed, and is closed once.
C6_LifecycleInOrder ==
    /\ [](in_order => LifeOK)
    /\ [][in_order' => LifeStep]_vars
    /\ [][SecondPlugRefused]_vars

C6_Witness ==
    /\ in_order
    /\ Terminated
    /\ last.op = "terminate"
    /\ Cardinality(Closed) = 1

(***************************************************************************)
(* The send path, read off last as the receive path is.                    *)
(***************************************************************************)
\* out_event ran, called by the reactor or by restart_output.
OutCall == last.op \in {"out_event", "restart_output"} /\ send_enabled

\* sendto was given a datagram that fits the buffer.
SentFitting ==
    /\ OutCall
    /\ Len(last.eff.sent) = 1
    /\ last.eff.sent[1].size <= MAX_UDP_MSG

\* C11: when sendto fails because it would block, out_event returns as if
\* the datagram had been sent and the engine stays attached; any other
\* failure of sendto ends the process by an assertion.
C11_WouldBlockIsSatisfied ==
    SentFitting =>
        /\ last.input.sres = "EAGAIN" => (last.eff.end = "return" /\ attached)
        /\ last.input.sres \notin {"ok", "EAGAIN"} => last.eff.end = "abort"

\* Raw mode, and the group pulled names no endpoint.
RawUnparsable ==
    /\ OutCall
    /\ options.raw_socket
    /\ Len(last.eff.pulled) = 2
    /\ last.eff.pulled[1] \in UnparsableGroups

\* C12: in raw mode, when the group pulled does not parse as an endpoint,
\* out_event closes the group and the body, sends no datagram, returns
\* without an error and leaves write-interest on.
C12_UnparsableIsDiscarded ==
    RawUnparsable =>
        /\ last.eff.sent = <<>>
        /\ Count(last.eff.calls, "sendto") = 0
        /\ Count(last.eff.calls, "msg.close") = 2
        /\ Count(last.eff.calls, "reset_pollout") = 0
        /\ last.eff.end = "return"
        /\ attached
        /\ reactor.pollout

C12_Witness ==
    /\ RawUnparsable
    /\ last.op = "out_event"
    /\ outq = <<>>
    /\ raw_address = ZeroSockaddr

\* C13: when the session has no message to pull, out_event turns
\* write-interest off, its last call, and sends no datagram; in every other
\* outcome it does not turn write-interest off, which stays on.
C13_IdleOnlyWhenEmpty ==
    OutCall =>
        IF last.eff.pulled = <<>>
        THEN /\ last.eff.sent = <<>>
             /\ last.eff.calls[Len(last.eff.calls)] = "reset_pollout"
             /\ Count(last.eff.calls, "reset_pollout") = 1
             /\ ~reactor.pollout
        ELSE /\ Count(last.eff.calls, "reset_pollout") = 0
             /\ reactor.pollout

C13_Witness ==
    /\ OutCall
    /\ last.op = "out_event"
    /\ last.eff.pulled = <<>>
    /\ ~reactor.pollout
    /\ attached

(***************************************************************************)
(* The send path alone, with a session that may hold a group whose body    *)
(* it does not supply.                                                     *)
(***************************************************************************)
SessionLone ==
    /\ obj = "live"
    /\ send_enabled
    /\ Len(outq) + 1 <= MaxQueue
    /\ \E g \in (IF options.raw_socket THEN RawGroups ELSE Groups) :
        outq' = Append(outq, g)
    /\ UNCHANGED <<fields, obj, socks, reactor, last, in_order, codec, frame>>

InitSend ==
    /\ Constructed(PlainOptions, {0})
    /\ outq = <<>>
    /\ codec = IdleCodec
    /\ frame = IdleFrame

NextSend ==
    \/ InOrder(EngineInit({UnicastV4}))
    \/ InOrder(Plug)
    \/ Terminate
    \/ OutEvent
    \/ RestartOutput
    \/ SessionQueue(Groups, RawGroups, Bodies)
    \/ SessionLone

SpecSend == InitSend /\ [][NextSend]_vars

\* The datagram sendto was given is made of the pair pulled.
SentIsPair ==
    /\ Len(last.eff.pulled) = 2
    /\ Count(last.eff.calls, "pull_msg") = 2
    /\ IF options.raw_socket
       THEN /\ last.eff.sent[1].data = last.eff.pulled[2]
            /\ last.eff.sent[1].size = Len(last.eff.pulled[2])
       ELSE /\ last.eff.sent[1].data =
                 <<Len(last.eff.pulled[1]) % ByteRange>>
                 \o last.eff.pulled[1] \o last.eff.pulled[2]
            /\ last.eff.sent[1].size =
                 1 + Len(last.eff.pulled[1]) + Len(last.eff.pulled[2])

\* out_event pulled a group and the session had no body to follow it.
LonePull == OutCall /\ Len(last.eff.pulled) = 1

RecvFailed == InCall /\ recv_enabled /\ last.input.n = 0 - 1

\* The call made nothing but the recvfrom that failed (and, in restart_input,
\* the set_pollin before it): no message, no push, no flush, no reset, the
\* read interest as it was.
OnlyRecvfrom ==
    /\ last.eff.calls = IF last.op = "in_event" THEN <<"recvfrom">>
                        ELSE <<"set_pollin", "recvfrom">>
    /\ last.eff.pushed = <<>>
    /\ SessionCalls = <<>>

Swallowed ==
    /\ OnlyRecvfrom
    /\ last.eff.end = "return"
    /\ attached
    /\ reactor.pollin

\* C15: when recvfrom fails for want of resources, for the network being
\* down or for would-block, in_event pushes nothing, calls neither flush
\* nor reset, leaves the read interest as it was and returns, the engine
\* staying attached.
C15_TransientIsSwallowed ==
    (RecvFailed /\ last.input.errno \in TransientErrnos) => Swallowed

\* C15, amended: a failure of recvfrom other than EBADF, EFAULT, ENOMEM and
\* ENOTSOCK is swallowed so; on those four, ENOMEM among them, in_event
\* fails its assertion, having pushed and called nothing else.
C15_NonFatalIsSwallowed ==
    RecvFailed =>
        IF last.input.errno \in FatalRecvErrno
        THEN OnlyRecvfrom /\ last.eff.end = "abort" /\ obj = "aborted"
        ELSE Swallowed

C15_Witness ==
    /\ RecvFailed
    /\ last.op = "in_event"
    /\ last.input.errno = "ENOBUFS"
    /\ Swallowed

(***************************************************************************)
(* The order of plug's calls.                                              *)
(***************************************************************************)
SendConfig == {"setsockopt.IP_MULTICAST_LOOP", "setsockopt.IPV6_MULTICAST_LOOP"}
RecvConfig == SysCalls \ SendConfig
Interest == {"set_pollin", "set_pollout"}

\* In the calls of the last method, every call of As is before every call
\* of Bs.
Precede(As, Bs) ==
    \A i, j \in DOMAIN last.eff.calls :
        (last.eff.calls[i] \in As /\ last.eff.calls[j] \in Bs) => i < j

PlugCall == last.op = "plug" /\ Len(last.eff.calls) >= 2

\* C16: in plug, bind_to_device and the configuration of both directions
\* (loop option, SO_REUSEADDR, bind, membership) are all made before the
\* socket is registered with the reactor for readiness events.
C16_ConfigBeforeRegistration ==
    PlugCall => Precede(SysCalls \cup {"bind_to_device"}, Interest)

\* C16, amended: plug gives the socket to the reactor (add_fd) first,
\* before bind_to_device and before any configuration; bind_to_device is
\* before either interest is turned on; each direction is configured
\* before its own interest is turned on; and when both directions are
\* enabled the write interest is on by the time the receive direction is
\* configured.
C16_ConfigBeforeOwnInterest ==
    PlugCall =>
        /\ last.eff.calls[1] = "io_object.plug"
        /\ last.eff.calls[2] = "add_fd"
        /\ Count(last.eff.calls, "add_fd") = 1
        /\ Precede({"bind_to_device"}, SysCalls \cup Interest)
        /\ Precede(SendConfig, {"set_pollout"})
        /\ Precede(RecvConfig, {"set_pollin"})
        /\ (send_enabled /\ Count(last.eff.calls, "setsockopt.SO_REUSEADDR") = 1) =>
               \E i \in DOMAIN last.eff.calls :
                   /\ last.eff.calls[i] = "set_pollout"
                   /\ \A j \in DOMAIN last.eff.calls :
                        last.eff.calls[j] \in RecvConfig => i < j

C16_Witness ==
    /\ PlugCall
    /\ attached
    /\ send_enabled
    /\ recv_enabled
    /\ Count(last.eff.calls, "bind_to_device") = 1
    /\ \E c \in SendConfig : Count(last.eff.calls, c) = 1
    /\ Count(last.eff.calls, "bind") = 1
    /\ Count(last.eff.calls, "set_pollin") = 1

(***************************************************************************)
(* restart_input and restart_output, and the two interests.                *)
(***************************************************************************)
Resubscribed(op, enabled, set, first) ==
    /\ last.op = op
    /\ enabled
    =>
    /\ Len(last.eff.calls) >= 2
    /\ last.eff.calls[1] = set
    /\ last.eff.calls[2] = first
    /\ Count(last.eff.calls, set) = 1

\* restart_output pulled a pair to send: in raw mode, one whose group is an
\* address.
Sendable ==
    /\ Len(last.eff.pulled) = 2
    /\ options.raw_socket => last.eff.pulled[1] \notin UnparsableGroups

\* C17: restart_input on a receive-enabled engine turns the read interest
\* on and reads at once; restart_output on a send-enabled engine turns the
\* write interest on and, in the same call, attempts one send: it pulls
\* from the session and gives the pair, if there is one to send, to sendto
\* once.
C17_ResubscribeAndAttempt ==
    /\ Resubscribed("restart_input", recv_enabled, "set_pollin", "recvfrom")
    /\ Resubscribed("restart_output", send_enabled, "set_pollout", "pull_msg")
    /\ (last.op = "restart_output" /\ send_enabled) =>
          /\ Count(last.eff.calls, "sendto") = (IF Sendable THEN 1 ELSE 0)
          /\ Len(last.eff.sent) = Count(last.eff.calls, "sendto")
          /\ Len(last.eff.pulled) \in {0, 2}

C17_Witness ==
    /\ last.op = "restart_output"
    /\ send_enabled
    /\ attached
    /\ reactor.pollout
    /\ Sendable
    /\ Len(last.eff.sent) = 1
    /\ last.eff.end = "return"

\* C18: on an attached engine the write interest is on only if sending is
\* enabled and the read interest is on only if receiving is enabled; and
\* restart_input on an engine that does not receive makes no call at all.
C18_InterestOnlyIfEnabled ==
    /\ attached =>
          /\ reactor.pollout => send_enabled
          /\ reactor.pollin => recv_enabled
    /\ (last.op = "restart_input" /\ ~recv_enabled) => last.eff = NoEffect

C18_Witness ==
    /\ last.op = "restart_input"
    /\ ~recv_enabled
    /\ send_enabled
    /\ attached
    /\ reactor.pollout
    /\ ~reactor.pollin

(***************************************************************************)
(* The messages in_event initialises.                                      *)
(***************************************************************************)
\* C20: when in_event returns, on whichever path, every message it
\* initialised has been closed (a message the session accepted is closed
\* after the push as well): as many msg.close as init_size.
C20_NoMessageLeaked ==
    (InCall /\ last.eff.end = "return") =>
        Count(last.eff.calls, "msg.init") = Count(last.eff.calls, "msg.close")

(***************************************************************************)
(* The send path of a framed engine to its end.  The session is given its  *)
(* messages before the engine is plugged and none after; every pair fits   *)
(* the buffer.  The reactor's poller is level-triggered: as long as the    *)
(* write interest is on and the engine is attached it calls out_event      *)
(* again, which is the weak fairness of OutEvent.                          *)
(***************************************************************************)
MaxBacklog == 4

FramedOptions == [raw_socket : {FALSE}, bound_device : {FALSE}]

FittingBodies == {Filled(k, 0) : k \in {0, MAX_UDP_MSG - 2}}

SessionBacklog ==
    /\ obj = "live"
    /\ ~plugged
    /\ Len(outq) + 2 <= MaxBacklog
    /\ \E g \in Groups, b \in FittingBodies :
        outq' = outq \o <<g, b>>
    /\ UNCHANGED <<fields, obj, socks, reactor, last, in_order, codec, frame>>

InitDrain ==
    /\ Constructed(FramedOptions, {0})
    /\ outq = <<>>
    /\ codec = IdleCodec
    /\ frame = IdleFrame

NextDrain ==
    \/ InOrder(EngineInit({UnicastV4}))
    \/ InOrder(Plug)
    \/ OutEvent
    \/ RestartOutput
    \/ SessionBacklog

SpecDrain == InitDrain /\ [][NextDrain]_vars /\ WF_vars(OutEvent)

Drained == obj = "live" /\ outq = <<>> /\ ~reactor.pollout

\* sendto failed otherwise than by would-block, and the assertion ended the
\* process.
FatalSend == obj = "aborted" /\ last.input.sres \notin {"ok", "EAGAIN"}

\* C19: on an attached send-enabled engine whose session gets no new
\* messages and whose reactor keeps calling out_event while the write
\* interest is on, eventually the queue is empty and the write interest is
\* off (unless a send fails otherwise than by would-block, which is fatal).
C19_QueueDrains == (attached /\ send_enabled) ~> (Drained \/ FatalSend)

=============================================================================
